---- MODULE Spec2Model ----
(***************************************************************************)
(* Model of examples/LanguagePoliteness/brds/excelToBrd.py: the            *)
(* BRDGenerator that turns a table of string cells into BRD state graphs.  *)
(*                                                                         *)
(* A Python string is a sequence of one-character strings, so that         *)
(* strip(), split(), slicing and the f-string formatting of the code are   *)
(* computed and not assumed.  A dict is a function whose DOMAIN is the set *)
(* of its keys.                                                            *)
(***************************************************************************)
EXTENDS Integers, Sequences, FiniteSets, TLC

VARIABLES
    node_counter,   \* self.node_counter
    edge_counter,   \* self.edge_counter
    uuid_counter,   \* how many uuid4 values generate_uuid has handed out
    calls,          \* how many times generate_brd has run on this generator
    problem_data,   \* the argument of the latest generate_brd call
    steps,          \* the steps list of the latest generate_brd call
    root,           \* the document the latest generate_brd call returned
    pc,             \* where the running operation stands
    table,          \* the df argument of extract_problem_data
    column,         \* its problem_column argument, as a column position
    extracted,      \* the dict extract_problem_data returned
    df,             \* the rows read_csv loaded, after df.sample(frac=1).reset_index(drop=True)
    n_test,         \* n_test of process_csv_language_translation
    count,          \* rows the running write_brd_files call has handled
    row,            \* the row of the latest iteration of write_brd_files
    words,          \* its words list
    all_titles,     \* its all_titles list after random.shuffle
    brd_1step,      \* its problem_data_1step, with the steps and document built from it
    files           \* the files written so far, in order

gen_vars == <<node_counter, edge_counter, uuid_counter, calls, problem_data, steps, root>>
extract_vars == <<table, column, extracted>>
csv_vars == <<df, n_test, count, row, words, all_titles, brd_1step, files>>
vars == <<gen_vars, pc, extract_vars, csv_vars>>

(***************************************************************************)
(* Bounds of the model.                                                    *)
(***************************************************************************)
\* generate_brd calls made on one generator
MaxCalls ==
    2
\* keys of the records handed to generate_brd directly
MaxFields ==
    2
\* rows of the tables handed to extract_problem_data directly
MaxExtractRows ==
    2
\* rows of the tables handed to process_excel_file
MaxTableRows ==
    2
\* rows of a translation table whose rows are all alike
MaxRows ==
    6
\* rows of a translation table whose rows differ
MaxVariedRows ==
    2

(***************************************************************************)
(* The string literals of the code.                                        *)
(***************************************************************************)
situation_input ==
    <<"s", "i", "t", "u", "a", "t", "i", "o", "n", "-", "i", "n", "p", "u", "t">>
relationship_a_input ==
    <<"r", "e", "l", "a", "t", "i", "o", "n", "s", "h", "i", "p", "-", "a", "-", "i", "n", "p", "u", "t">>
relationship_b_input ==
    <<"r", "e", "l", "a", "t", "i", "o", "n", "s", "h", "i", "p", "-", "b", "-", "i", "n", "p", "u", "t">>
person_a_word_ ==
    <<"p", "e", "r", "s", "o", "n", "-", "a", "-", "w", "o", "r", "d", "-">>
option_word_ ==
    <<"o", "p", "t", "i", "o", "n", "-", "w", "o", "r", "d", "-">>
formal_checkbox ==
    <<"f", "o", "r", "m", "a", "l", "-", "c", "h", "e", "c", "k", "b", "o", "x">>
done ==
    <<"d", "o", "n", "e">>
minus_one ==
    <<"-", "1">>
UpdateTextField ==
    <<"U", "p", "d", "a", "t", "e", "T", "e", "x", "t", "F", "i", "e", "l", "d">>
ButtonPressed ==
    <<"B", "u", "t", "t", "o", "n", "P", "r", "e", "s", "s", "e", "d">>
TutorUnevaluated ==
    <<"T", "u", "t", "o", "r", " ", "(", "u", "n", "e", "v", "a", "l", "u", "a", "t", "e", "d", ")">>
Student ==
    <<"S", "t", "u", "d", "e", "n", "t">>
empty ==
    <<"e", "m", "p", "t", "y">>
state ==
    <<"s", "t", "a", "t", "e">>
ExactMatcher ==
    <<"E", "x", "a", "c", "t", "M", "a", "t", "c", "h", "e", "r">>
hint_done ==
    <<"P", "l", "e", "a", "s", "e", " ", "c", "l", "i", "c", "k", " ", "t", "h", "e", " ", "h", "i", "g", "h", "l", "i", "g", "h", "t", "e", "d", " ", "b", "u", "t", "t", "o", "n", ".">>
hint_enter_pre ==
    <<"P", "l", "e", "a", "s", "e", " ", "e", "n", "t", "e", "r", " ", "\"">>
hint_enter_post ==
    <<"\"", " ", "i", "n", " ", "t", "h", "e", " ", "h", "i", "g", "h", "l", "i", "g", "h", "t", "e", "d", " ", "f", "i", "e", "l", "d", ".">>
nan ==
    <<"n", "a", "n">>
Unnamed ==
    <<"U", "n", "n", "a", "m", "e", "d">>

(***************************************************************************)
(* str(int) and the f-strings built from it.                               *)
(***************************************************************************)
Digits ==
    <<"0", "1", "2", "3", "4", "5", "6", "7", "8", "9">>

RECURSIVE StrNat(_)
StrNat(n) ==
    IF n < 10 THEN <<Digits[n + 1]>>
    ELSE StrNat(n \div 10) \o <<Digits[(n % 10) + 1]>>

\* str(i) of a Python int
Str(i) ==
    IF i < 0 THEN <<"-">> \o StrNat(0 - i) ELSE StrNat(i)

\* f"person-a-word-{i}"
PersonAWord(i) ==
    person_a_word_ \o Str(i)

\* f"option-word-{i}"
OptionWord(i) ==
    option_word_ \o Str(i)

\* f"state{i + 2}"
NodeText(i) ==
    state \o Str(i + 2)

\* f'Please enter "{value}" in the highlighted field.'
HintEnter(value) ==
    hint_enter_pre \o value \o hint_enter_post

(***************************************************************************)
(* The str methods the code uses, and pandas' missing cell.                *)
(***************************************************************************)
\* the characters str.strip() and str.split() treat as whitespace
Whitespace ==
    {" ", "\t", "\n"}

RECURSIVE lstrip(_)
lstrip(s) ==
    IF s # <<>> /\ Head(s) \in Whitespace THEN lstrip(Tail(s)) ELSE s

RECURSIVE rstrip(_)
rstrip(s) ==
    IF s # <<>> /\ s[Len(s)] \in Whitespace THEN rstrip(SubSeq(s, 1, Len(s) - 1)) ELSE s

\* s.strip()
strip(s) ==
    rstrip(lstrip(s))

\* s.startswith(p)
startswith(s, p) ==
    Len(s) >= Len(p) /\ SubSeq(s, 1, Len(p)) = p

\* s.endswith(p)
endswith(s, p) ==
    Len(s) >= Len(p) /\ SubSeq(s, Len(s) - Len(p) + 1, Len(s)) = p

\* s[2:-2]
Slice2Minus2(s) ==
    IF Len(s) <= 4 THEN <<>> ELSE SubSeq(s, 3, Len(s) - 2)

\* the float NaN pandas puts in an empty cell: no string equals it
NaN ==
    <<"NaN">>

\* pd.notna(cell)
notna(cell) ==
    cell # NaN

\* str(cell) of a cell: a string stays, the float NaN prints as 'nan'
StrCell(cell) ==
    IF cell = NaN THEN nan ELSE cell

(***************************************************************************)
(* generate_uuid: uuid4 hands out a value it never handed out before; the  *)
(* k-th value is modelled by its number.                                   *)
(***************************************************************************)
generate_uuid(k) ==
    <<"u", "u", "i", "d", "-">> \o Str(k)

(***************************************************************************)
(* The step planner of generate_brd (lines 329-362).                       *)
(***************************************************************************)
\* range(2, 16)
PersonWordFirst ==
    2
PersonWordStop ==
    16
\* range(1, 6)
OptionWordFirst ==
    1
OptionWordStop ==
    6

\* the loop of line 331 written as range(2, 15)
RECURSIVE person_words_Stop15(_, _)
person_words_Stop15(pd, i) ==
    IF i >= PersonWordStop - 1 THEN <<>>
    ELSE (IF PersonAWord(i) \in DOMAIN pd
          THEN << <<PersonAWord(i), pd[PersonAWord(i)]>> >>
          ELSE <<>>) \o person_words_Stop15(pd, i + 1)

\* the loop of line 331 written as range(2, 17)
RECURSIVE person_words_Stop17(_, _)
person_words_Stop17(pd, i) ==
    IF i >= PersonWordStop + 1 THEN <<>>
    ELSE (IF PersonAWord(i) \in DOMAIN pd
          THEN << <<PersonAWord(i), pd[PersonAWord(i)]>> >>
          ELSE <<>>) \o person_words_Stop17(pd, i + 1)

\* for i in range(2, 16): collect (field_name, value) of the present fields
RECURSIVE person_words(_, _)
person_words(pd, i) ==
    IF i >= PersonWordStop THEN <<>>
    ELSE (IF PersonAWord(i) \in DOMAIN pd
          THEN << <<PersonAWord(i), pd[PersonAWord(i)]>> >>
          ELSE <<>>) \o person_words(pd, i + 1)

\* for field in ['situation-input', 'relationship-a-input', 'relationship-b-input']
BasicFields ==
    <<situation_input, relationship_a_input, relationship_b_input>>

RECURSIVE BasicSteps(_, _)
BasicSteps(pd, j) ==
    IF j > Len(BasicFields) THEN <<>>
    ELSE (IF BasicFields[j] \in DOMAIN pd
          THEN << <<BasicFields[j], pd[BasicFields[j]], UpdateTextField, TutorUnevaluated>> >>
          ELSE <<>>) \o BasicSteps(pd, j + 1)

\* the loop of line 331 written as range(1, 16)
PersonWordSteps_FromOne(pd) ==
    LET pw == person_words(pd, 1)
    IN  [j \in 1..Len(pw) |-> <<pw[j][1], pw[j][2], UpdateTextField, TutorUnevaluated>>]

\* for field_name, value in person_words: steps.append(...)
PersonWordSteps(pd) ==
    LET pw == person_words(pd, PersonWordFirst)
    IN  [j \in 1..Len(pw) |-> <<pw[j][1], pw[j][2], UpdateTextField, TutorUnevaluated>>]

\* for i in range(1, 6): option-word steps
RECURSIVE OptionWordSteps(_, _)
OptionWordSteps(pd, i) ==
    IF i >= OptionWordStop THEN <<>>
    ELSE (IF OptionWord(i) \in DOMAIN pd
          THEN << <<OptionWord(i), pd[OptionWord(i)], UpdateTextField, TutorUnevaluated>> >>
          ELSE <<>>) \o OptionWordSteps(pd, i + 1)

FormalCheckboxStep(pd) ==
    IF formal_checkbox \in DOMAIN pd
    THEN << <<formal_checkbox, pd[formal_checkbox], UpdateTextField, Student>> >>
    ELSE <<>>

PersonAWord1Step(pd) ==
    IF PersonAWord(1) \in DOMAIN pd
    THEN << <<PersonAWord(1), pd[PersonAWord(1)], UpdateTextField, Student>> >>
    ELSE <<>>

DoneStep ==
    <<done, minus_one, ButtonPressed, Student>>

\* the done step appended before the two Student fields
PlanSteps_DoneEarly(pd) ==
    BasicSteps(pd, 1)
    \o PersonWordSteps(pd)
    \o OptionWordSteps(pd, OptionWordFirst)
    \o <<DoneStep>>
    \o FormalCheckboxStep(pd)
    \o PersonAWord1Step(pd)

\* the formal-checkbox step appended after the person-a-word-1 step
PlanSteps_FormalLast(pd) ==
    BasicSteps(pd, 1)
    \o PersonWordSteps(pd)
    \o OptionWordSteps(pd, OptionWordFirst)
    \o PersonAWord1Step(pd)
    \o FormalCheckboxStep(pd)
    \o <<DoneStep>>

\* the steps list as it stands at line 362
PlanSteps(pd) ==
    BasicSteps(pd, 1)
    \o PersonWordSteps(pd)
    \o OptionWordSteps(pd, OptionWordFirst)
    \o FormalCheckboxStep(pd)
    \o PersonAWord1Step(pd)
    \o <<DoneStep>>

(***************************************************************************)
(* The graph builder: create_node, create_action_label, create_edge.  An   *)
(* XML element is a record of the texts of its children.                   *)
(***************************************************************************)
x_positions ==
    <<217, -83>>
y_pos ==
    25
y_increment ==
    160

\* create_matcher(matcher_type, value)
create_matcher(matcher_type, value) ==
    [matcherType |-> matcher_type, matcherParameter |-> value]

\* create_action_label: reads self.edge_counter, draws one uuid
create_action_label(selection, action, input_value, hint_message, actor, ec, uc) ==
    [uniqueID       |-> Str(ec),
     transaction_id |-> generate_uuid(uc),
     Selection      |-> selection,
     Action         |-> action,
     Input          |-> input_value,
     hintMessage    |-> hint_message,
     matchers       |-> [Selection |-> create_matcher(ExactMatcher, selection),
                         Action    |-> create_matcher(ExactMatcher, action),
                         Input     |-> create_matcher(ExactMatcher, input_value),
                         Actor     |-> actor]]

\* create_node: the element, the id it got, and self.node_counter afterwards
create_node(text, x_pos, y, nc) ==
    [node         |-> [text |-> text, uniqueID |-> Str(nc), x |-> Str(x_pos), y |-> Str(y)],
     current_id   |-> nc,
     node_counter |-> nc + 1]

\* create_edge writing the destination id into sourceID as well
create_edge_SourceIsDest(source_id, dest_id, action_label, ec) ==
    [edge         |-> [actionLabel |-> action_label,
                       sourceID    |-> Str(dest_id),
                       destID      |-> Str(dest_id)],
     edge_counter |-> ec + 1]

\* create_edge: the element and self.edge_counter afterwards
create_edge(source_id, dest_id, action_label, ec) ==
    [edge         |-> [actionLabel |-> action_label,
                       sourceID    |-> Str(source_id),
                       destID      |-> Str(dest_id)],
     edge_counter |-> ec + 1]

\* for i, step in enumerate(steps): one node per step (lines 377-384)
RECURSIVE StepNodes(_, _, _, _)
StepNodes(n, i, nc, y) ==
    IF i >= n THEN <<>>
    ELSE LET r == create_node(NodeText(i), x_positions[((i + 1) % 2) + 1], y, nc)
         IN  <<r>> \o StepNodes(n, i + 1, r.node_counter, y + y_increment)

\* the nodes list: the "empty" node, then one node per step (lines 364-384)
BuildNodes(st, nc) ==
    LET first == create_node(empty, x_positions[1], y_pos, nc)
    IN  <<first>> \o StepNodes(Len(st), 0, first.node_counter, y_pos + y_increment)

\* the hint of lines 388-391 without the branch on 'done'
HintMessage_AlwaysEnter(field, value) ==
    HintEnter(value)

\* the hint of one step (lines 388-391)
HintMessage(field, value) ==
    IF field = done THEN hint_done ELSE HintEnter(value)

\* for i, step in enumerate(steps): one edge per step (lines 387-395)
RECURSIVE StepEdges(_, _, _, _, _)
StepEdges(st, nodes, i, ec, uc) ==
    IF i >= Len(st) THEN <<>>
    ELSE LET s     == st[i + 1]
             label == create_action_label(s[1], s[3], s[2], HintMessage(s[1], s[2]), s[4], ec, uc)
             r     == create_edge(nodes[i + 1].current_id, nodes[i + 2].current_id, label, ec)
         IN  <<r>> \o StepEdges(st, nodes, i + 1, r.edge_counter, uc + 1)

\* generate_brd(problem_data, problem_name), run with the counters at nc, ec
\* and uc: the steps, the document, and the counters afterwards
generate_brd(pd, nc, ec, uc) ==
    LET st    == PlanSteps(pd)
        nodes == BuildNodes(st, nc)
        edges == StepEdges(st, nodes, 0, ec, uc)
    IN  [steps        |-> st,
         root         |-> [nodes |-> [j \in 1..Len(nodes) |-> nodes[j].node],
                           edges |-> [j \in 1..Len(edges) |-> edges[j].edge]],
         node_counter |-> nodes[Len(nodes)].node_counter,
         edge_counter |-> IF Len(edges) = 0 THEN ec ELSE edges[Len(edges)].edge_counter,
         uuid_counter |-> uc + Len(edges)]

(***************************************************************************)
(* The records handed to generate_brd directly.                            *)
(***************************************************************************)
\* the fields generate_brd looks up: the first and the last of each range,
\* and the fields looked up by name
ModeledFields ==
    {situation_input, relationship_a_input, relationship_b_input,
     PersonAWord(1), PersonAWord(2), PersonAWord(15),
     OptionWord(1), OptionWord(5), formal_checkbox}

\* fields generate_brd never looks up
UnmodeledFields ==
    {PersonAWord(16), done}

FieldUniverse ==
    ModeledFields \cup UnmodeledFields

\* more fields of either kind, present in FullRecord only
ExtraFields ==
    {PersonAWord(3), OptionWord(2), PersonAWord(0), OptionWord(0), OptionWord(6), Unnamed}

\* a value that tells which field it belongs to
SampleValue(k) ==
    <<"=">> \o k

\* the record of spec section 8
ExampleRecord ==
    (situation_input :> <<"A", "t", " ", "w", "o", "r", "k">>)
    @@ (relationship_a_input :> <<"B", "o", "s", "s">>)
    @@ (relationship_b_input :> <<"E", "m", "p", "l", "o", "y", "e", "e">>)
    @@ (OptionWord(1) :> <<"S", "i", "r">>)
    @@ (OptionWord(2) :> <<"B", "r", "o">>)

FullRecord ==
    [k \in FieldUniverse \cup ExtraFields |-> SampleValue(k)]

Records ==
    {[k \in S |-> SampleValue(k)] : S \in {T \in SUBSET FieldUniverse : Cardinality(T) <= MaxFields}}
    \cup {ExampleRecord, FullRecord}

(***************************************************************************)
(* The generator driven through generate_brd: __init__, then calls.        *)
(***************************************************************************)
NoDocument ==
    [nodes |-> <<>>, edges |-> <<>>]

NoTable ==
    [columns |-> <<>>, rows |-> <<>>]

NoRow ==
    <<>>

NoBrd ==
    [problem_data |-> <<>>, steps |-> <<>>, root |-> NoDocument]

\* BRDGenerator.__init__ (lines 133-135): a generator that built nothing yet
InitGenerator ==
    /\ node_counter = 1
    /\ edge_counter = 1
    /\ uuid_counter = 0
    /\ calls = 0
    /\ problem_data = <<>>
    /\ steps = <<>>
    /\ root = NoDocument

\* no table extracted from yet
InitNoExtract ==
    /\ table = NoTable
    /\ column = 0
    /\ extracted = <<>>

\* no translation table loaded yet
InitNoCsv ==
    /\ df = <<>>
    /\ n_test = 0
    /\ count = 0
    /\ row = NoRow
    /\ words = <<>>
    /\ all_titles = <<>>
    /\ brd_1step = NoBrd
    /\ files = <<>>

Init ==
    /\ InitGenerator
    /\ pc = "api"
    /\ InitNoExtract
    /\ InitNoCsv

\* one call generate_brd(pd, name) on the generator
GenerateBrd(pd) ==
    /\ calls < MaxCalls
    /\ \E r \in {generate_brd(pd, node_counter, edge_counter, uuid_counter)} :
           /\ node_counter' = r.node_counter
           /\ edge_counter' = r.edge_counter
           /\ uuid_counter' = r.uuid_counter
           /\ steps' = r.steps
           /\ root' = r.root
    /\ problem_data' = pd
    /\ calls' = calls + 1
    /\ UNCHANGED <<pc, extract_vars, csv_vars>>

Next ==
    \E pd \in Records : GenerateBrd(pd)

Spec ==
    Init /\ [][Next]_vars

(***************************************************************************)
(* extract_problem_data (lines 274-290).  A DataFrame is its column names  *)
(* and its rows; a row is the sequence of its cells.                       *)
(***************************************************************************)
wrapper_open ==
    <<"%", "(">>
wrapper_close ==
    <<")", "%">>

\* lines 281-284: the key a row with a non-blank name is stored under
FieldName(cell) ==
    LET field_name == strip(StrCell(cell))
    IN  IF startswith(field_name, wrapper_open) /\ endswith(field_name, wrapper_close)
        THEN Slice2Minus2(field_name)
        ELSE field_name

\* line 280: pd.notna(field_name) and field_name.strip()
NameGiven(cell) ==
    notna(cell) /\ strip(cell) # <<>>

\* line 287: pd.notna(value) and str(value).strip()
ValueGiven(cell) ==
    notna(cell) /\ strip(StrCell(cell)) # <<>>

\* one iteration of the loop of line 278 on the dict built so far
ExtractRow(r, c, acc) ==
    IF NameGiven(r[1]) /\ ValueGiven(r[c])
    THEN (FieldName(r[1]) :> strip(StrCell(r[c]))) @@ acc
    ELSE acc

RECURSIVE ExtractRows(_, _, _, _)
ExtractRows(rows, c, i, acc) ==
    IF i > Len(rows) THEN acc
    ELSE ExtractRows(rows, c, i + 1, ExtractRow(rows[i], c, acc))

\* extract_problem_data(df, problem_column), the column given by position
extract_problem_data(frame, c) ==
    ExtractRows(frame.rows, c, 1, <<>>)

(***************************************************************************)
(* extract_problem_data called directly on a table of two columns.         *)
(***************************************************************************)
\* first-column cells: a core, wrapped or not, padded or not, or missing
NamePads ==
    {<<>>, <<" ">>}
NameCores ==
    {<<>>, <<" ">>, <<"x">>}
NameCells ==
    {l \o o \o core \o c \o r :
        l \in NamePads, r \in NamePads, core \in NameCores,
        o \in {<<>>, wrapper_open}, c \in {<<>>, wrapper_close}}
    \cup {NaN}

ValueCells ==
    {NaN, <<" ">>, <<"v">>, <<" ", "v", " ">>}

ExtractRowsOf ==
    {<<n, v>> : n \in NameCells, v \in ValueCells}

ExtractTables ==
    UNION {[1..k -> ExtractRowsOf] : k \in 0..MaxExtractRows}

InitExtract ==
    /\ InitGenerator
    /\ pc = "extract"
    /\ table \in {[columns |-> <<<<"f">>, <<"p">>>>, rows |-> rows] : rows \in ExtractTables}
    /\ column = 2
    /\ extracted = <<>>
    /\ InitNoCsv

\* one call extract_problem_data(table, column)
ExtractProblemData ==
    /\ pc = "extract"
    /\ extracted' = extract_problem_data(table, column)
    /\ pc' = "extracted"
    /\ UNCHANGED <<gen_vars, table, column, csv_vars>>

NextExtract ==
    ExtractProblemData

SpecExtract ==
    InitExtract /\ [][NextExtract]_vars

(***************************************************************************)
(* process_excel_file in whole-table mode (lines 409-499): column 1 holds  *)
(* the field names, every other column one problem.                        *)
(***************************************************************************)
UnnamedColon ==
    <<"U", "n", "n", "a", "m", "e", "d", ":">>

\* s.replace(' ', '_').replace('/', '_').replace('\\', '_')
SafeName(s) ==
    [i \in 1..Len(s) |-> IF s[i] \in {" ", "/", "\\"} THEN "_" ELSE s[i]]

\* line 433: the rows whose first cell is given
RECURSIVE KeepNamedRows(_)
KeepNamedRows(rows) ==
    IF rows = <<>> THEN <<>>
    ELSE (IF NameGiven(Head(rows)[1]) THEN <<Head(rows)>> ELSE <<>>)
         \o KeepNamedRows(Tail(rows))

\* lines 436-440: the column positions kept, in order: column 1, and the
\* columns whose cell in the first remaining row is given
RECURSIVE ColsToKeep(_, _, _)
ColsToKeep(rows, ncols, c) ==
    IF c > ncols THEN <<>>
    ELSE (IF c = 1 \/ (rows # <<>> /\ ValueGiven(rows[1][c])) THEN <<c>> ELSE <<>>)
         \o ColsToKeep(rows, ncols, c + 1)

\* lines 431-441: the table the column loop runs over
TrimTable(t) ==
    LET rows == KeepNamedRows(t.rows)
        keep == ColsToKeep(rows, Len(t.columns), 1)
    IN  [columns |-> [j \in 1..Len(keep) |-> t.columns[keep[j]]],
         rows    |-> [i \in 1..Len(rows) |-> [j \in 1..Len(keep) |-> rows[i][keep[j]]]]]

\* line 459: the column is unnamed
UnnamedColumn(problem_name) ==
    startswith(problem_name, UnnamedColon) \/ strip(problem_name) = <<>>

\* lines 473-474: the fields that count as data
MeaningfulData(pd) ==
    [k \in {f \in DOMAIN pd : /\ pd[f] # <<>>
                              /\ strip(pd[f]) # <<>>
                              /\ pd[f] # nan
                              /\ ~startswith(f, Unnamed)} |-> pd[k]]

\* the tables: a few field names, a few cells, two problem columns
TableNames ==
    {situation_input, wrapper_open \o PersonAWord(1) \o wrapper_close,
     Unnamed \o <<":", " ", "0">>, <<" ">>, NaN}

TableCells ==
    {NaN, <<"v">>, nan}

TableColumnNames ==
    {<<"s", "q", " ", "1">>, UnnamedColon \o <<" ", "1">>, <<" ">>}

ExcelTables ==
    {[columns |-> <<<<"f">>, c, <<"q">>>>, rows |-> rows] :
        c \in TableColumnNames,
        rows \in UNION {[1..k -> {<<n, v, w>> : n \in TableNames, v \in TableCells, w \in TableCells}] :
                           k \in 0..MaxTableRows}}

InitTable ==
    /\ InitGenerator
    /\ pc = "load"
    /\ InitNoExtract
    /\ InitNoCsv

\* lines 411-448: load the file and trim the table
LoadTable(t) ==
    /\ pc = "load"
    /\ table' = TrimTable(t)
    /\ column' = 2
    /\ pc' = IF Len(TrimTable(t).columns) >= 2 THEN "columns" ELSE "done"
    /\ UNCHANGED <<gen_vars, extracted, csv_vars>>

\* one iteration of the column loop (lines 451-497) on the column at
\* position column: reset the counters, skip the column or build and write
\* its document
ProcessColumn ==
    /\ pc = "columns"
    /\ LET problem_name == table.columns[column]
           pd           == extract_problem_data(table, column)
           meaningful   == MeaningfulData(pd)
       IN  IF UnnamedColumn(problem_name)
           THEN /\ node_counter' = 1
                /\ edge_counter' = 1
                /\ UNCHANGED <<uuid_counter, calls, problem_data, steps, root, extracted, files>>
           ELSE IF pd = <<>> \/ Cardinality(DOMAIN meaningful) < 2
           THEN /\ node_counter' = 1
                /\ edge_counter' = 1
                /\ extracted' = pd
                /\ UNCHANGED <<uuid_counter, calls, problem_data, steps, root, files>>
           ELSE \E b \in {generate_brd(meaningful, 1, 1, uuid_counter)} :
                /\ node_counter' = b.node_counter
                /\ edge_counter' = b.edge_counter
                /\ uuid_counter' = b.uuid_counter
                /\ calls' = calls + 1
                /\ extracted' = pd
                /\ problem_data' = meaningful
                /\ steps' = b.steps
                /\ root' = b.root
                /\ files' = files \o <<[dir |-> "brd_generated", name |-> SafeName(problem_name),
                                        variant |-> "table", idx |-> column]>>
    /\ column' = column + 1
    /\ pc' = IF column + 1 <= Len(table.columns) THEN "columns" ELSE "done"
    /\ UNCHANGED <<table, df, n_test, count, row, words, all_titles, brd_1step>>

NextTable ==
    \/ \E t \in ExcelTables : LoadTable(t)
    \/ ProcessColumn

SpecTable ==
    InitTable /\ [][NextTable]_vars

(***************************************************************************)
(* process_csv_language_translation (lines 32-132).  A row of the          *)
(* translation table is a record of its seven cells.                       *)
(***************************************************************************)
test_ ==
    <<"t", "e", "s", "t", "_">>
problem_ ==
    <<"p", "r", "o", "b", "l", "e", "m", "_">>
suffix_1step ==
    <<"_", "1", "s", "t", "e", "p">>
suffix_2step ==
    <<"_", "2", "s", "t", "e", "p">>

\* the least of two numbers
Min(a, b) ==
    IF a < b THEN a ELSE b

\* the index of the first whitespace character of s, Len(s) + 1 without one
RECURSIVE WordEnd(_, _)
WordEnd(s, i) ==
    IF i > Len(s) \/ s[i] \in Whitespace THEN i ELSE WordEnd(s, i + 1)

\* s.split(): the maximal runs of non-whitespace characters, in order
RECURSIVE split(_)
split(s) ==
    LET t == lstrip(s)
    IN  IF t = <<>> THEN <<>>
        ELSE LET e == WordEnd(t, 1)
             IN  <<SubSeq(t, 1, e - 1)>> \o split(SubSeq(t, e, Len(t)))

\* [x for x in list if x]
RECURSIVE NonEmpty(_)
NonEmpty(list) ==
    IF list = <<>> THEN <<>>
    ELSE (IF Head(list) # <<>> THEN <<Head(list)>> ELSE <<>>) \o NonEmpty(Tail(list))

\* list(jieba.cut(s)): the tokenizer is a library; what the code relies on
\* is that it cuts s into consecutive non-empty pieces, and every such
\* cutting is a possible outcome
RECURSIVE jieba_cut(_)
jieba_cut(s) ==
    IF s = <<>> THEN {<<>>}
    ELSE UNION {{<<SubSeq(s, 1, k)>> \o rest : rest \in jieba_cut(SubSeq(s, k + 1, Len(s)))} :
                   k \in 1..Len(s)}

Bijections(n) ==
    {p \in [1..n -> 1..n] : \A i, j \in 1..n : i # j => p[i] # p[j]}

\* the lists random.shuffle(list) can leave: every rearrangement
random_shuffle(list) ==
    {[i \in 1..Len(list) |-> list[p[i]]] : p \in Bijections(Len(list))}

\* how often x occurs in a list
Occurrences(list, x) ==
    Cardinality({i \in 1..Len(list) : list[i] = x})

\* the tables df.sample(frac=1, random_state=42).reset_index(drop=True) can
\* give: the same rows, each as often as before, in some order
df_sample(rows) ==
    {t \in [1..Len(rows) -> {rows[i] : i \in 1..Len(rows)}] :
        \A i \in 1..Len(rows) : Occurrences(t, rows[i]) = Occurrences(rows, rows[i])}

\* the n_test read as n_rows without max(1, ...)
NTest_NoMax(n_rows) ==
    n_rows \div 5

\* line 43: max(1, int(n_rows * 0.2)); the truncated product is n_rows div 5
NTest(n_rows) ==
    IF n_rows \div 5 >= 1 THEN n_rows \div 5 ELSE 1

\* line 45: how many rows train_df = df.iloc[:n_rows - n_test] holds
NTrain(n_rows) ==
    IF n_rows > NTest(n_rows) THEN n_rows - NTest(n_rows) ELSE 0

\* the positions in df (from 1) of test_df = df.tail(n_test), in order
TestPositions(n_rows) ==
    [j \in 1..Min(NTest(n_rows), n_rows) |-> n_rows - Min(NTest(n_rows), n_rows) + j]

\* the positions in df (from 1) of train_df, in order
TrainPositions(n_rows) ==
    [j \in 1..NTrain(n_rows) |-> j]

\* lines 60-66: str(row.get(name, '')).strip()
Cell(r, name) ==
    strip(StrCell(r[name]))

\* lines 76-78: titles_list + wrong_titles_list before the shuffle
TitlesOf(r) ==
    LET title        == Cell(r, "Title")
        wrong_titles == Cell(r, "WrongTitles")
    IN  (IF title # <<>> THEN <<title>> ELSE <<>>)
        \o (IF wrong_titles # <<>>
            THEN NonEmpty([i \in 1..Len(split(wrong_titles)) |-> strip(split(wrong_titles)[i])])
            ELSE <<>>)

\* lines 68-71: the outcomes of the tokenizer on the completed sentence
WordsOf(r) ==
    IF Cell(r, "CompletedSentence") # <<>> THEN jieba_cut(Cell(r, "CompletedSentence")) ELSE {<<>>}

\* lines 85-88: the dict entries f'option-word-{i+1}': w and f'person-a-word-{i+1}': w
OptionWords(titles) ==
    [k \in {OptionWord(i) : i \in 1..Len(titles)} |->
        titles[CHOOSE i \in 1..Len(titles) : OptionWord(i) = k]]

PersonAWords(ws) ==
    [k \in {PersonAWord(i) : i \in 1..Len(ws)} |->
        ws[CHOOSE i \in 1..Len(ws) : PersonAWord(i) = k]]

\* lines 80-88: problem_data_1step
ProblemData1Step(r, titles, ws) ==
    PersonAWords(ws) @@ OptionWords(titles)
    @@ (situation_input :> Cell(r, "Situation"))
    @@ (relationship_a_input :> Cell(r, "RelationshipA"))
    @@ (relationship_b_input :> Cell(r, "RelationshipB"))

\* lines 91-92: problem_data_2step
ProblemData2Step(r, titles, ws) ==
    (formal_checkbox :> Cell(r, "Formality")) @@ ProblemData1Step(r, titles, ws)

\* lines 94-104: safe_filename_1step and safe_filename_2step
SafeFilename(test_mode, cnt, idx, suffix) ==
    IF test_mode THEN test_ \o Str(cnt) \o suffix ELSE problem_ \o Str(idx) \o suffix

\* the translation tables: rows of a few kinds
FullRow ==
    [Situation |-> <<"S">>, RelationshipA |-> <<"A">>, RelationshipB |-> <<"B">>,
     Formality |-> <<"F">>, Title |-> <<"T">>, WrongTitles |-> <<"D", " ", "E">>,
     CompletedSentence |-> <<"a", "b">>]

\* every cell holds whitespace only
BlankRow ==
    [Situation |-> <<" ">>, RelationshipA |-> <<" ">>, RelationshipB |-> <<" ">>,
     Formality |-> <<" ">>, Title |-> <<" ">>, WrongTitles |-> <<" ">>,
     CompletedSentence |-> <<" ">>]

\* the cells after the relationships are empty in the file
MissingRow ==
    [Situation |-> <<"S">>, RelationshipA |-> <<"A">>, RelationshipB |-> <<"B">>,
     Formality |-> NaN, Title |-> <<"T">>, WrongTitles |-> NaN,
     CompletedSentence |-> NaN]

\* padded cells, a decoy equal to the title, no sentence
PaddedRow ==
    [Situation |-> <<" ", "S", " ">>, RelationshipA |-> <<"A">>, RelationshipB |-> NaN,
     Formality |-> <<"F">>, Title |-> <<" ", "T">>, WrongTitles |-> <<" ", "T", " ", " ", "D", " ">>,
     CompletedSentence |-> <<" ">>]

\* no decoys, a sentence of three characters
PlainRow ==
    [Situation |-> <<"S">>, RelationshipA |-> <<"A">>, RelationshipB |-> <<"B">>,
     Formality |-> <<"F">>, Title |-> <<"T">>, WrongTitles |-> <<" ">>,
     CompletedSentence |-> <<"a", "b", "c">>]

RowKinds ==
    {FullRow, BlankRow, MissingRow, PaddedRow, PlainRow}

\* one decoy, a sentence of one character
ShortRow ==
    [Situation |-> <<"S">>, RelationshipA |-> <<"A">>, RelationshipB |-> <<"B">>,
     Formality |-> <<"F">>, Title |-> <<"T">>, WrongTitles |-> <<"D">>,
     CompletedSentence |-> <<"a">>]

\* the table sizes at which the rows are all alike: up to MaxRows, and the
\* table of 50 rows of the specification
AlikeSizes ==
    (0..MaxRows) \cup {50}

TranslationTables ==
    {[i \in 1..n |-> ShortRow] : n \in AlikeSizes}
    \cup UNION {[1..n -> RowKinds] : n \in 0..MaxVariedRows}

InitCsv ==
    /\ InitGenerator
    /\ pc = "start"
    /\ InitNoExtract
    /\ InitNoCsv

\* where write_brd_files stands once cnt rows of the running call are done
PcAfter(where, cnt, n_rows) ==
    IF where = "train" /\ cnt < NTrain(n_rows) THEN "train"
    ELSE IF where = "train" /\ Min(NTest(n_rows), n_rows) > 0 THEN "test"
    ELSE IF where = "test" /\ cnt < Min(NTest(n_rows), n_rows) THEN "test"
    ELSE "done"

\* lines 34-56: load, shuffle, split
LoadCsv(rows) ==
    /\ pc = "start"
    /\ df' \in df_sample(rows)
    /\ n_test' = NTest(Len(rows))
    /\ count' = 0
    /\ pc' = PcAfter("train", 0, Len(rows))
    /\ UNCHANGED <<gen_vars, extract_vars, row, words, all_titles, brd_1step, files>>

\* one iteration of the loop of write_brd_files (lines 59-126) on the row at
\* position pos of df, with label idx, as iteration cnt of the running call
WriteBrdRow(pos, idx, cnt, out_dir_1step, out_dir_2step, test_mode) ==
    \E ws \in WordsOf(df[pos]) : \E titles \in random_shuffle(TitlesOf(df[pos])) :
    \E b1 \in {generate_brd(ProblemData1Step(df[pos], titles, ws),
                            node_counter, edge_counter, uuid_counter)} :
    \E b2 \in {generate_brd(ProblemData2Step(df[pos], titles, ws),
                            b1.node_counter, b1.edge_counter, b1.uuid_counter)} :
        /\ row' = df[pos]
        /\ words' = ws
        /\ all_titles' = titles
        /\ brd_1step' = [problem_data |-> ProblemData1Step(df[pos], titles, ws),
                         steps |-> b1.steps, root |-> b1.root]
        /\ problem_data' = ProblemData2Step(df[pos], titles, ws)
        /\ steps' = b2.steps
        /\ root' = b2.root
        /\ node_counter' = b2.node_counter
        /\ edge_counter' = b2.edge_counter
        /\ uuid_counter' = b2.uuid_counter
        /\ calls' = calls + 2
        /\ files' = files \o
               <<[dir |-> out_dir_1step, name |-> SafeFilename(test_mode, cnt, idx, suffix_1step),
                  variant |-> "1step", idx |-> idx],
                 [dir |-> out_dir_2step, name |-> SafeFilename(test_mode, cnt, idx, suffix_2step),
                  variant |-> "2step", idx |-> idx]>>

\* line 129: write_brd_files(train_df, gen_1step, gen_2step, test_mode=False);
\* after its last row the call of line 130 starts counting from 1 again
WriteTrainRow ==
    /\ pc = "train"
    /\ WriteBrdRow(TrainPositions(Len(df))[count + 1], TrainPositions(Len(df))[count + 1] - 1,
                   count + 1, "brd_generated_1step", "brd_generated_2step", FALSE)
    /\ pc' = PcAfter("train", count + 1, Len(df))
    /\ count' = IF PcAfter("train", count + 1, Len(df)) = "train" THEN count + 1 ELSE 0
    /\ UNCHANGED <<extract_vars, df, n_test>>

\* line 130: write_brd_files(test_df, test_1step, test_2step, test_mode=True)
WriteTestRow ==
    /\ pc = "test"
    /\ WriteBrdRow(TestPositions(Len(df))[count + 1], TestPositions(Len(df))[count + 1] - 1,
                   count + 1, "brd_test_1step", "brd_test_2step", TRUE)
    /\ pc' = PcAfter("test", count + 1, Len(df))
    /\ count' = count + 1
    /\ UNCHANGED <<extract_vars, df, n_test>>

NextCsv ==
    \/ \E rows \in TranslationTables : LoadCsv(rows)
    \/ WriteTrainRow
    \/ WriteTestRow

SpecCsv ==
    InitCsv /\ [][NextCsv]_vars

(***************************************************************************)
(* Properties of the documents generate_brd builds.                        *)
(***************************************************************************)
Built ==
    calls > 0

StepFields ==
    [i \in 1..Len(steps) |-> steps[i][1]]

\* C2: every document has exactly one more node than edges and one edge per
\* planned step; the last planned step is ('done', '-1', ButtonPressed,
\* Student) and no earlier step is named 'done'.
C2_NodesEdgesDone ==
    Built =>
        /\ Len(root.nodes) = Len(root.edges) + 1
        /\ Len(root.edges) = Len(steps)
        /\ Len(steps) >= 1
        /\ steps[Len(steps)] = <<done, minus_one, ButtonPressed, Student>>
        /\ \A i \in 1..(Len(steps) - 1) : steps[i][1] # done

\* a document built from a record that holds only unmodeled fields, one of
\* them named 'done'
C2_Witness ==
    /\ Built
    /\ done \in DOMAIN problem_data
    /\ DOMAIN problem_data \subseteq UnmodeledFields
    /\ Len(steps) = 1

\* the fixed order of the modeled fields, as the planner's contract lists it
FixedOrder ==
    <<situation_input, relationship_a_input, relationship_b_input>>
    \o [i \in 1..14 |-> PersonAWord(i + 1)]
    \o [i \in 1..5 |-> OptionWord(i)]
    \o <<formal_checkbox, PersonAWord(1)>>

Rank(f) ==
    CHOOSE i \in 1..Len(FixedOrder) : FixedOrder[i] = f

FixedFields ==
    {FixedOrder[i] : i \in 1..Len(FixedOrder)}

StudentFields ==
    {formal_checkbox, PersonAWord(1)}

\* C3: the planned steps list each present modeled field exactly once, in
\* the fixed order, with its value, UpdateTextField and its actor (Student
\* for formal-checkbox and person-a-word-1, Tutor for the rest), then done;
\* absent and unmodeled fields contribute nothing, and the record of five
\* fields of the specification yields 6 steps, 7 nodes and 6 edges.
C3_FixedOrder ==
    Built =>
        LET n == Len(steps) - 1
        IN  /\ n >= 0
            /\ steps[n + 1][1] = done
            /\ {steps[i][1] : i \in 1..n} = DOMAIN problem_data \cap FixedFields
            /\ \A i \in 1..n :
                   /\ steps[i][1] \in FixedFields
                   /\ steps[i][2] = problem_data[steps[i][1]]
                   /\ steps[i][3] = UpdateTextField
                   /\ steps[i][4] = (IF steps[i][1] \in StudentFields
                                     THEN Student ELSE TutorUnevaluated)
            /\ \A i, j \in 1..n : i < j => Rank(steps[i][1]) < Rank(steps[j][1])
            /\ (problem_data = ExampleRecord =>
                   /\ StepFields = <<situation_input, relationship_a_input,
                                     relationship_b_input, OptionWord(1),
                                     OptionWord(2), done>>
                   /\ Len(root.nodes) = 7
                   /\ Len(root.edges) = 6)

\* the document built from the record of five fields of the specification
C3_Witness ==
    /\ Built
    /\ problem_data = ExampleRecord
    /\ Len(steps) = 6

\* the labelled part of two documents: everything but the transaction ids
WithoutTransactionIds(doc) ==
    [nodes |-> doc.nodes,
     edges |-> [i \in 1..Len(doc.edges) |->
                   [doc.edges[i] EXCEPT !.actionLabel.transaction_id = <<>>]]]

\* C4: a second generate_brd call with the same record on the same
\* generator yields the same document as the first, transaction ids apart.
C4_Idempotent ==
    [][(Built /\ problem_data' = problem_data) =>
           WithoutTransactionIds(root') = WithoutTransactionIds(root)]_vars

PersonAWord1Positions ==
    {i \in 1..Len(steps) : steps[i][1] = PersonAWord(1)}

\* C10: without person-a-word-1 in the record no step is named
\* person-a-word-1; with it, exactly one step is, its actor is Student, and
\* no Tutor step is named person-a-word-1.
C10_PersonAWord1 ==
    Built =>
        /\ (PersonAWord(1) \notin DOMAIN problem_data => PersonAWord1Positions = {})
        /\ (PersonAWord(1) \in DOMAIN problem_data =>
               /\ Cardinality(PersonAWord1Positions) = 1
               /\ \A i \in PersonAWord1Positions :
                      /\ steps[i][4] = Student
                      /\ steps[i][2] = problem_data[PersonAWord(1)])
        /\ \A i \in 1..Len(steps) :
               steps[i][4] = TutorUnevaluated => steps[i][1] # PersonAWord(1)

\* a document whose record holds person-a-word-1 and person-a-word-2
C10_Witness ==
    /\ Built
    /\ {PersonAWord(1), PersonAWord(2)} \subseteq DOMAIN problem_data
    /\ PersonAWord1Positions # {}

\* the edges that leave the node with id u, and those that enter it
EdgesFrom(u) ==
    {e \in 1..Len(root.edges) : root.edges[e].sourceID = u}

EdgesTo(u) ==
    {e \in 1..Len(root.edges) : root.edges[e].destID = u}

\* C11: the edges of a document form one linear chain over its nodes: edge i
\* goes from node i-1 to node i (node 0 being the 'empty' start node), so
\* every node but the start node is the destination of exactly one edge and
\* every node but the last is the source of exactly one edge.
C11_LinearChain ==
    Built =>
        /\ root.nodes[1].text = empty
        /\ \A i \in 1..Len(root.edges) :
               /\ root.edges[i].sourceID = root.nodes[i].uniqueID
               /\ root.edges[i].destID = root.nodes[i + 1].uniqueID
        /\ \A j \in 1..Len(root.nodes) :
               /\ Cardinality(EdgesTo(root.nodes[j].uniqueID)) = (IF j = 1 THEN 0 ELSE 1)
               /\ Cardinality(EdgesFrom(root.nodes[j].uniqueID)) = (IF j = Len(root.nodes) THEN 0 ELSE 1)

\* a second document of the same generator, with six steps: its chain does
\* not start at node id 1
C11_Witness ==
    /\ calls = 2
    /\ Len(steps) = 6
    /\ Len(root.edges) = 6
    /\ root.nodes[1].uniqueID # Str(1)
    /\ root.edges[6].destID = root.nodes[7].uniqueID

\* the record without the key K
Without(pd, K) ==
    [k \in DOMAIN pd \ {K} |-> pd[k]]

\* the keys of a record that are outside the modeled ranges
UnmodeledKeys(pd) ==
    DOMAIN pd \ FixedFields

\* C12: a field outside the modeled ranges is ignored: a call of generate_brd
\* on a record that holds an unmodeled key K plans the same steps and builds
\* the same nodes and edges (up to the random transaction ids) as the call
\* on the record without K would have.
C12_UnmodeledIgnored ==
    [][calls' = calls + 1 =>
          \A K \in UnmodeledKeys(problem_data') :
              \E r \in {generate_brd(Without(problem_data', K), node_counter, edge_counter, uuid_counter)} :
                  /\ r.steps = steps'
                  /\ r.root.nodes = root'.nodes
                  /\ WithoutTransactionIds(r.root) = WithoutTransactionIds(root')]_vars

\* a document built from the record that holds person-a-word-16,
\* person-a-word-0, option-word-0, option-word-6, 'done' and an unknown name
\* next to twelve modeled fields
C12_Witness ==
    /\ Built
    /\ problem_data = FullRecord
    /\ {PersonAWord(16), PersonAWord(0), OptionWord(0), OptionWord(6), done, Unnamed}
           \subseteq UnmodeledKeys(problem_data)
    /\ Len(steps) = 12
    /\ Len(root.edges) = 12

\* 'Please enter "<value>" in the highlighted field.'
EnterHint(value) ==
    hint_enter_pre \o value \o hint_enter_post

\* C13: the action label on edge i carries the field name, the action kind
\* and the value of step i as selection, action and input, exact-match
\* matchers on those three values, and the step's actor; its hint is
\* 'Please click the highlighted button.' exactly when step i is the terminal
\* done step, and 'Please enter "<value>" in the highlighted field.' for
\* every other step.
C13_ActionLabel ==
    Built =>
        \A i \in 1..Len(steps) :
            LET label == root.edges[i].actionLabel
                field == steps[i][1]
                value == steps[i][2]
                kind  == steps[i][3]
                actor == steps[i][4]
                last  == (i = Len(steps))
            IN  /\ last => (field = done /\ value = minus_one /\ kind = ButtonPressed)
                /\ ~last => (field \in DOMAIN problem_data /\ value = problem_data[field])
                /\ label.Selection = field
                /\ label.Action = kind
                /\ label.Input = value
                /\ label.matchers.Selection = [matcherType |-> ExactMatcher, matcherParameter |-> field]
                /\ label.matchers.Action = [matcherType |-> ExactMatcher, matcherParameter |-> kind]
                /\ label.matchers.Input = [matcherType |-> ExactMatcher, matcherParameter |-> value]
                /\ label.matchers.Actor = actor
                /\ label.hintMessage = (IF last THEN hint_done ELSE EnterHint(value))
                /\ (label.hintMessage = hint_done) <=> last

\* a document with Tutor steps, Student steps and the done step, built from
\* a record that also holds a field named 'done'
C13_Witness ==
    /\ Built
    /\ {situation_input, formal_checkbox, done} \subseteq DOMAIN problem_data
    /\ Len(steps) = 12
    /\ root.edges[1].actionLabel.Selection = situation_input
    /\ root.edges[1].actionLabel.matchers.Actor = TutorUnevaluated
    /\ root.edges[10].actionLabel.Selection = formal_checkbox
    /\ root.edges[10].actionLabel.matchers.Actor = Student
    /\ root.edges[10].actionLabel.hintMessage = EnterHint(problem_data[formal_checkbox])
    /\ root.edges[12].actionLabel.Action = ButtonPressed
    /\ root.edges[12].actionLabel.hintMessage = hint_done

(***************************************************************************)
(* Properties of the records extract_problem_data returns.                 *)
(***************************************************************************)
Blank(s) ==
    strip(s) = <<>>

\* the rows of the table that have a non-blank name and a non-blank value
GivenRows ==
    {i \in 1..Len(table.rows) :
        /\ table.rows[i][1] # NaN /\ ~Blank(table.rows[i][1])
        /\ table.rows[i][column] # NaN /\ ~Blank(table.rows[i][column])}

\* the X of a trimmed name of the form %(X)%
WrappedName(t) ==
    SubSeq(t, 3, Len(t) - 2)

IsWrapped(t) ==
    Len(t) >= 4 /\ t = wrapper_open \o WrappedName(t) \o wrapper_close

\* C5: the returned record has no blank key and no blank value; a row with
\* a blank name or a blank value contributes nothing; a row whose trimmed
\* name is %(X)% is stored under X.
C5_NoBlankKeyOrValue ==
    pc = "extracted" =>
        /\ \A k \in DOMAIN extracted : ~Blank(k) /\ ~Blank(extracted[k])
        /\ (GivenRows = {} => DOMAIN extracted = {})
        /\ Cardinality(DOMAIN extracted) <= Cardinality(GivenRows)
        /\ \A i \in GivenRows :
               LET t == strip(table.rows[i][1])
               IN  IsWrapped(t) => WrappedName(t) \in DOMAIN extracted

(***************************************************************************)
(* Properties of translation mode.                                         *)
(***************************************************************************)
\* a row has been handled: row, words, all_titles, brd_1step and the
\* generator's latest call (the 2step document) are those of that row
RowHandled ==
    row # NoRow

\* the node ids of a document are 1..N and its action-label ids 1..M
IdsFromOne(doc) ==
    /\ \A i \in 1..Len(doc.nodes) : doc.nodes[i].uniqueID = Str(i)
    /\ \A i \in 1..Len(doc.edges) : doc.edges[i].actionLabel.uniqueID = Str(i)

\* C1: in every document built, the node uniqueIDs are 1..N and the
\* action-label uniqueIDs are 1..M in creation order, whatever was built
\* before on the same generator.
C1_IdsFromOne ==
    /\ IdsFromOne(root)
    /\ IdsFromOne(brd_1step.root)

\* the fields of a record whose value is not blank
MeaningfulFields(pd) ==
    {k \in DOMAIN pd : ~Blank(pd[k])}

\* C6: no document is written for a row that yields fewer than two
\* non-blank fields: whenever the files of a row have been written, the
\* record of that row holds at least two of them.
C6_SparseRowSkipped ==
    (RowHandled /\ files # <<>>) => Cardinality(MeaningfulFields(problem_data)) >= 2

\* how many Tutor steps a step list holds
TutorCount(st) ==
    Cardinality({i \in 1..Len(st) : st[i][4] = TutorUnevaluated})

\* C7: the 1step record has no formal-checkbox key; the 2step record is the
\* 1step record (same option-word and person-a-word assignment) plus
\* formal-checkbox; the 2step steps are the 1step steps with the
\* formal-checkbox step inserted directly after the last Tutor step.
C7_VariantsDifferInFormalCheckbox ==
    RowHandled =>
        LET pd1 == brd_1step.problem_data
            st1 == brd_1step.steps
            t   == TutorCount(st1)
        IN  /\ formal_checkbox \notin DOMAIN pd1
            /\ DOMAIN problem_data = DOMAIN pd1 \cup {formal_checkbox}
            /\ \A k \in DOMAIN pd1 : problem_data[k] = pd1[k]
            /\ \A i \in 1..Len(st1) : (st1[i][4] = TutorUnevaluated) <=> (i <= t)
            /\ steps = SubSeq(st1, 1, t)
                       \o << <<formal_checkbox, problem_data[formal_checkbox],
                               UpdateTextField, Student>> >>
                       \o SubSeq(st1, t + 1, Len(st1))

\* the two documents of a row with a title, two decoys, a sentence and a
\* formality
C7_Witness ==
    /\ RowHandled
    /\ row = FullRow
    /\ Len(words) = 2
    /\ Len(steps) = Len(brd_1step.steps) + 1
    /\ PersonAWord(1) \in DOMAIN problem_data

\* what a row holds: a missing cell holds nothing
RowText(r, name) ==
    IF r[name] = NaN THEN <<>> ELSE strip(r[name])

RECURSIVE Flatten(_)
Flatten(list) ==
    IF list = <<>> THEN <<>> ELSE Head(list) \o Flatten(Tail(list))

\* the keys of a record that start with a prefix
KeysWith(pd, prefix) ==
    {k \in DOMAIN pd : startswith(k, prefix)}

\* C8: for a row with title T, decoys D1..Dk (the whitespace-separated words
\* of its Wrong Titles cell) and a sentence tokenized into w1..wn, the
\* record handed to the planner has exactly the option-word keys 1..k+1,
\* holding T, D1..Dk each as often as it occurs, and exactly the
\* person-a-word keys 1..n, holding w1..wn in order.
C8_TitlesAndWords ==
    (RowHandled /\ RowText(row, "Title") # <<>>) =>
        LET pd1    == brd_1step.problem_data
            titles == <<RowText(row, "Title")>> \o split(RowText(row, "WrongTitles"))
        IN  /\ KeysWith(pd1, option_word_) = {OptionWord(i) : i \in 1..Len(titles)}
            /\ \A i \in 1..Len(titles) :
                   Occurrences([j \in 1..Len(titles) |-> pd1[OptionWord(j)]], titles[i])
                       = Occurrences(titles, titles[i])
            /\ Flatten(words) = RowText(row, "CompletedSentence")
            /\ KeysWith(pd1, person_a_word_) = {PersonAWord(j) : j \in 1..Len(words)}
            /\ \A j \in 1..Len(words) : pd1[PersonAWord(j)] = words[j]

\* the files written into the train and the test directories
TrainDirs ==
    {"brd_generated_1step", "brd_generated_2step"}
TestDirs ==
    {"brd_test_1step", "brd_test_2step"}

RowsIn(dirs) ==
    {files[k].idx : k \in {j \in 1..Len(files) : files[j].dir \in dirs}}

FilesOf(idx, dir) ==
    {k \in 1..Len(files) : files[k].idx = idx /\ files[k].dir = dir}

\* C9: once the table is written out, every row went to exactly one of
\* train and test; test holds the last max(1, floor(0.2 n)) rows and train
\* the rest (10 and 40 of 50 rows); every row has exactly one 1step and one
\* 2step file, in the directories of its side.
C9_TrainTestSplit ==
    /\ RowsIn(TrainDirs) \cap RowsIn(TestDirs) = {}
    /\ pc = "done" =>
           LET n == Len(df)
               k == IF n \div 5 >= 1 THEN n \div 5 ELSE 1
           IN  /\ n_test = k
               /\ RowsIn(TrainDirs) \cup RowsIn(TestDirs) = 0..(n - 1)
               /\ RowsIn(TestDirs) = {i \in 0..(n - 1) : i >= n - k}
               /\ RowsIn(TrainDirs) = {i \in 0..(n - 1) : i < n - k}
               /\ Len(files) = 2 * n
               /\ \A i \in RowsIn(TrainDirs) :
                      /\ Cardinality(FilesOf(i, "brd_generated_1step")) = 1
                      /\ Cardinality(FilesOf(i, "brd_generated_2step")) = 1
               /\ \A i \in RowsIn(TestDirs) :
                      /\ Cardinality(FilesOf(i, "brd_test_1step")) = 1
                      /\ Cardinality(FilesOf(i, "brd_test_2step")) = 1
               /\ (n = 50 =>
                      /\ Cardinality(RowsIn(TestDirs)) = 10
                      /\ Cardinality(RowsIn(TrainDirs)) = 40)

\* the table of 50 rows, written out
C9_Witness ==
    /\ pc = "done"
    /\ Len(df) = 50
    /\ Len(files) = 100
    /\ Cardinality(RowsIn(TestDirs)) = 10

(***************************************************************************)
(* Whole-table mode, for comparison with C1 and C6: under SpecTable the    *)
(* column loop resets the counters and skips the sparse columns.           *)
(***************************************************************************)
\* every document of whole-table mode numbers its nodes and labels from 1
TableIdsFromOne ==
    IdsFromOne(root)

\* a file is written for a column only if the column yields at least two
\* meaningful fields, and for every named column that does
TableSparseColumnSkipped ==
    \A c \in 2..Len(table.columns) :
        c < column =>
            ((\E k \in 1..Len(files) : files[k].idx = c)
                <=> (/\ ~UnnamedColumn(table.columns[c])
                     /\ Cardinality(MeaningfulFields(MeaningfulData(extract_problem_data(table, c)))) >= 2))

\* a column was skipped and a later column was written, numbered from 1
TableSkipThenWrite ==
    /\ pc = "done"
    /\ Len(table.columns) = 3
    /\ Len(files) = 1
    /\ files[1].idx = 3
    /\ Len(steps) = 3
    /\ root.nodes[1].uniqueID = Str(1)

====
